---- MODULE Spec2Model ----
(***************************************************************************)
(* Merge-insertion sort (Ford-Johnson) of merge_insertion/__init__.py.     *)
(*                                                                         *)
(* Every list object the program builds lives in a per-invocation heap     *)
(* (a sequence of lists, the index being the object's identity), so that   *)
(* aliasing (the queue of _make_groups and the main chain hold the same    *)
(* slot objects) and in-place mutation (pair.pop, main_chain.insert) are   *)
(* what they are in the code.  Indices kept in program variables (idx,     *)
(* pair_idx, left, right, mid, i) are 0-based as in the code.              *)
(***************************************************************************)
EXTENDS Integers, Sequences, FiniteSets, TLC

\* ---------------------------------------------------------------- bounds
MaxN == 6          \* longest duplicate-free input of a sort
MaxDupLen == 3     \* longest input with a repeated value
MaxBinLen == 5     \* longest target array of a stand-alone binary search
MaxArg == 56       \* largest argument of merge_insertion_max_comparisons
MaxNeg == 6        \* most negative argument is -MaxNeg
MaxConcA == 4      \* longest input of the first of two interleaved sorts
MaxConcB == 4      \* longest input of the second of two interleaved sorts
MaxGroupLen == 11  \* longest input of a stand-alone _make_groups
MaxEmit == 10      \* most values drawn from one _group_sizes generator
MaxAnyN == 7       \* longest input of a sort under an arbitrary comparator

Procs == {1, 2}

\* --------------------------------------------------------------- helpers
Range(s) == {s[k] : k \in 1..Len(s)}

Reverse(s) == [k \in 1..Len(s) |-> s[Len(s) + 1 - k]]

Min(a, b) == IF a < b THEN a ELSE b

\* Python's s[a:b] for 0 <= a <= b
Slice(s, a, b) == SubSeq(s, a + 1, Min(b, Len(s)))

\* the slot lands one place too far to the right
\* array[index] = item: the item replaces the element at idx
ListInsertOverwrite(s, idx, x) ==
    IF idx + 1 <= Len(s) THEN [s EXCEPT ![idx + 1] = x] ELSE Append(s, x)

ListInsertAfter(s, idx, x) ==
    SubSeq(s, 1, Min(idx + 1, Len(s))) \o <<x>> \o SubSeq(s, Min(idx + 1, Len(s)) + 1, Len(s))

\* Python's list.insert(idx, x) for 0 <= idx <= len
ListInsert(s, idx, x) == SubSeq(s, 1, idx) \o <<x>> \o SubSeq(s, idx + 1, Len(s))

RECURSIVE Pow2(_)
Pow2(n) == IF n <= 0 THEN 1 ELSE 2 * Pow2(n - 1)

Perms(n) == {s \in [1..n -> 1..n] : \A a, b \in 1..n : a # b => s[a] # s[b]}

\* ------------------------------------------------------------ comparator
\* The comparators a caller supplies: a total order on the items, ranking
\* by value ("asc", the tests' _comp) or by reversed value ("desc").
Comparators == {"asc", "desc"}

\* The answers a comparator may give to the tuple ab: 0 if the first item
\* ranks higher, 1 if the second one does.  The code takes whatever the
\* awaited callable returns: "any" is a comparator bound by no order, free
\* to answer each call either way.
Answers(c, ab) ==
    CASE c = "asc"  -> {IF ab[1] > ab[2] THEN 0 ELSE 1}
      [] c = "desc" -> {IF ab[1] < ab[2] THEN 0 ELSE 1}
      [] c = "any"  -> {0, 1}

\* a ranks strictly lower than b in the order comparator c decides by
RanksLower(c, a, b) ==
    CASE c = "asc"  -> a < b
      [] c = "desc" -> a > b

\* ---------------------------------------------------------- _group_sizes
\* The generator's state is its two locals; next() yields cur and advances.
\* the exponent starts at 0 instead of 1
group_sizes_from_zero == [prev |-> 0, i |-> 0]

group_sizes == [prev |-> 0, i |-> 1]

\* prev is never updated: every value is the bare power of two
group_sizes_next_stale_prev(gen) ==
    LET cur == Pow2(gen.i) - gen.prev
    IN  [value |-> cur, gen |-> [prev |-> gen.prev, i |-> gen.i + 1]]

group_sizes_next(gen) ==
    LET cur == Pow2(gen.i) - gen.prev
    IN  [value |-> cur, gen |-> [prev |-> cur, i |-> gen.i + 1]]

\* ---------------------------------------------------------- _make_groups
Enumerate(array) == [k \in 1..Len(array) |-> <<k - 1, array[k]>>]

\* the loop ends after any group that is not longer than the size drawn
RECURSIVE make_groups_loop_stops_early(_, _, _, _)
make_groups_loop_stops_early(items, gen, i, rv) ==
    LET nx    == group_sizes_next(gen)
        size  == nx.value
        group == Reverse(Slice(items, i, i + size))
    IN  IF Len(group) <= size
        THEN rv \o group
        ELSE make_groups_loop_stops_early(items, nx.gen, i + size, rv \o group)

RECURSIVE make_groups_loop(_, _, _, _)
make_groups_loop(items, gen, i, rv) ==
    LET nx    == group_sizes_next(gen)
        size  == nx.value
        group == Reverse(Slice(items, i, i + size))
    IN  IF Len(group) < size
        THEN rv \o group
        ELSE make_groups_loop(items, nx.gen, i + size, rv \o group)

\* the groups are not reversed: the pending elements keep their order
make_groups_in_order(array) == Enumerate(array)

make_groups(array) == make_groups_loop(Enumerate(array), group_sizes, 0, <<>>)

\* ------------------------------------------------------------ _ident_find
\* array is a list of object identities; -1 stands for the IndexError.
ident_find(array, item) ==
    IF \E k \in 1..Len(array) : array[k] = item
    THEN (CHOOSE k \in 1..Len(array) :
             array[k] = item /\ \A j \in 1..(k - 1) : array[j] # item) - 1
    ELSE -1

\* ----------------------------------------- merge_insertion_max_comparisons
\* floor(log2(m)) for an integer m >= 1
RECURSIVE FloorLog2(_)
FloorLog2(m) == IF m < 2 THEN 0 ELSE 1 + FloorLog2(m \div 2)

\* ceil(log2(num/den)) for num/den > 1/2
RECURSIVE CeilLog2From(_, _, _)
CeilLog2From(num, den, k) ==
    IF den * Pow2(k) >= num THEN k ELSE CeilLog2From(num, den, k + 1)

\* the logarithm is rounded down instead of up
CeilLog2RoundedDown(num, den) == FloorLog2(num \div den)

CeilLog2(num, den) == CeilLog2From(num, den, 0)

merge_insertion_max_comparisons(n) ==
    IF n < 0
    THEN [raised |-> "ValueError", rv |-> 0]
    ELSE [raised |-> "none",
          rv |-> IF n # 0
                 THEN n * CeilLog2(3 * n, 4)
                      - (Pow2(FloorLog2(6 * n)) \div 3)
                      + (FloorLog2(6 * n) \div 2)
                 ELSE 0]

\* ----------------------------------------------------------------- state
VARIABLES
    input,    \* input[p]: what the caller's sequence held when it called
    cmp,      \* cmp[p]: the comparator the caller passed
    heap,     \* heap[p]: the list objects of invocation p, by identity
    stack,    \* stack[p]: the frames of merge_insertion_sort, innermost last
    bs,       \* bs[p]: the frame of the running _bin_insert_index call
    log,      \* log[p]: the tuples handed to the comparator, in order
    status,   \* status[p]: "idle", "running", "returned" or the error raised
    result,   \* result[p]: identity of the returned list, 0 if none
    mc,       \* a call of merge_insertion_max_comparisons
    mg,       \* a call of _make_groups
    gs        \* a generator made by _group_sizes() and what it has yielded

vars == <<input, cmp, heap, stack, bs, log, status, result, mc, mg, gs>>

\* the caller's sequence is the first object of the invocation's heap
InputObj == 1

NewFrame(arr) ==
    [array |-> arr, pc |-> "start", i |-> 0, pairs |-> <<>>, larger |-> 0,
     main_chain |-> 0, queue |-> <<>>, qi |-> 0,
     item |-> 0, pair_idx |-> -1, idx |-> -1]

BsIdle == [pc |-> "idle", array |-> <<>>, item |-> 0,
           left |-> 0, right |-> 0, rv |-> -1, calls |-> 0]

BsCall(array, item) == [BsIdle EXCEPT !.pc = "start", !.array = array, !.item = item]

McIdle == [pc |-> "idle", n |-> 0, raised |-> "none", rv |-> 0]

MgIdle == [pc |-> "idle", array |-> <<>>, rv |-> <<>>]

\* gen = _group_sizes(): a new generator, nothing drawn from it yet
GsNew == [gen |-> group_sizes, emitted |-> <<>>]

Top(p) == stack[p][Len(stack[p])]

\* the duplicate check is left out
HasDuplicatesUnchecked(a) == FALSE

\* line 153: len(array) != len(set(array))
HasDuplicates(a) == Len(a) # Cardinality(Range(a))

\* the leftover item is searched in all but the last slot
LeftoverTargetShort(h, chain) == [k \in 1..(Len(chain) - 1) |-> h[chain[k]][1]]

\* line 223: the leftover item is searched in [ i[0] for i in main_chain ]
LeftoverTarget(h, chain) == [k \in 1..Len(chain) |-> h[chain[k]][1]]

\* the search of a paired item includes its own partner
PairedTargetInclusive(h, chain, pair_idx) ==
    [k \in 1..Len(Slice(chain, 0, pair_idx + 1)) |-> h[chain[k]][1]]

\* line 230: a paired item in [ i[0] for i in main_chain[:pair_idx] ]
PairedTarget(h, chain, pair_idx) ==
    [k \in 1..Len(Slice(chain, 0, pair_idx)) |-> h[chain[k]][1]]

\* the two outcomes of the single comparison are swapped
SingleIndexSwapped(ans) == IF ans # 0 THEN 1 ELSE 0

\* line 124: the index in a one-element array
SingleIndex(ans) == IF ans # 0 THEN 0 ELSE 1

\* line 127
Midpoint(left, right) == left + ((right - left) \div 2)

\* the two branches of the search are swapped
NarrowSwapped(left, right, mid, ans) ==
    IF ans # 0
    THEN [left |-> mid + 1, right |-> right]
    ELSE [left |-> left, right |-> mid - 1]

\* lines 128-131: the bounds after the comparator answered ans at mid
Narrow(left, right, mid, ans) ==
    IF ans # 0
    THEN [left |-> left, right |-> mid - 1]
    ELSE [left |-> mid + 1, right |-> right]

\* the dict `pairs`: a sequence of <<key, value>> in insertion order
DictHas(d, k) == \E j \in 1..Len(d) : d[j][1] = k

DictGet(d, k) == d[CHOOSE j \in 1..Len(d) : d[j][1] = k][2]

DictSet(d, k, v) ==
    IF DictHas(d, k)
    THEN [j \in 1..Len(d) |-> IF d[j][1] = k THEN <<k, v>> ELSE d[j]]
    ELSE Append(d, <<k, v>>)

DictKeys(d) == [j \in 1..Len(d) |-> d[j][1]]

\* [ i[0] for i in chain ] where chain is a list of slot identities
Placed(h, chain) == [k \in 1..Len(chain) |-> h[chain[k]][1]]

\* `return rv` of the innermost frame: to the caller of the top-level call,
\* or into `larger` of the frame that awaits the recursive call (line 170)
Returns(p, rv) ==
    IF Len(stack[p]) = 1
    THEN /\ stack' = [stack EXCEPT ![p] = <<>>]
         /\ status' = [status EXCEPT ![p] = "returned"]
         /\ result' = [result EXCEPT ![p] = rv]
    ELSE /\ stack' = [stack EXCEPT ![p] =
                [SubSeq(@, 1, Len(@) - 1) EXCEPT ![Len(@) - 1] =
                    [@ EXCEPT !.larger = rv, !.pc = "chain"]]]
         /\ UNCHANGED <<status, result>>

\* an exception propagates through every frame to the caller
Raises(p, err) ==
    /\ stack' = [stack EXCEPT ![p] = <<>>]
    /\ status' = [status EXCEPT ![p] = err]
    /\ UNCHANGED result

SetTop(p, f) == stack' = [stack EXCEPT ![p] = [@ EXCEPT ![Len(@)] = f]]

\* --------------------------------------------------------------- actions
\* lines 149-156: special cases and error checking
SortEnter(p) ==
    /\ stack[p] # <<>>
    /\ Top(p).pc = "start"
    /\ LET a == heap[p][Top(p).array]
           n == Len(a)
           fresh == Len(heap[p]) + 1
       IN  IF n < 1
           THEN /\ heap' = [heap EXCEPT ![p] = Append(@, <<>>)]
                /\ Returns(p, fresh)
                /\ UNCHANGED log
           ELSE IF n = 1
           THEN /\ heap' = [heap EXCEPT ![p] = Append(@, a)]
                /\ Returns(p, fresh)
                /\ UNCHANGED log
           ELSE IF HasDuplicates(a)
           THEN /\ Raises(p, "ValueError: duplicate items")
                /\ UNCHANGED <<heap, log>>
           ELSE IF n = 2
           THEN \E ans \in Answers(cmp[p], <<a[1], a[2]>>) :
                /\ log' = [log EXCEPT ![p] = Append(@, <<a[1], a[2]>>)]
                /\ heap' = [heap EXCEPT ![p] =
                        Append(@, IF ans # 0 THEN a ELSE <<a[2], a[1]>>)]
                /\ Returns(p, fresh)
           ELSE /\ SetTop(p, [Top(p) EXCEPT !.pc = "pairing", !.i = 0, !.pairs = <<>>])
                /\ UNCHANGED <<heap, log, status, result>>
    /\ UNCHANGED <<input, cmp, bs, mc, mg, gs>>

\* `pairs` is one dict shared by all running invocations (say a module-level
\* dict, or a mutable default argument) instead of a local of each call
PairCompareShared(p) ==
    /\ stack[p] # <<>>
    /\ Top(p).pc = "pairing"
    /\ LET f == Top(p)
           a == heap[p][f.array]
           x == a[f.i + 1]
           y == a[f.i + 2]
       IN  \E ans \in Answers(cmp[p], <<x, y>>) :
           /\ log' = [log EXCEPT ![p] = Append(@, <<x, y>>)]
           /\ stack' = [q \in Procs |->
                  IF stack[q] = <<>>
                  THEN stack[q]
                  ELSE [stack[q] EXCEPT ![Len(stack[q])] =
                         [@ EXCEPT
                            !.pairs = IF ans # 0 THEN DictSet(@, y, x) ELSE DictSet(@, x, y),
                            !.i = IF q = p THEN f.i + 2 ELSE @,
                            !.pc = IF q # p THEN @
                                   ELSE IF f.i + 2 < Len(a) - 1 THEN "pairing"
                                   ELSE "recurse"]]]
    /\ UNCHANGED <<input, cmp, heap, bs, status, result, mc, mg, gs>>

\* lines 161-166: one iteration of the pairing loop
PairCompare(p) ==
    /\ stack[p] # <<>>
    /\ Top(p).pc = "pairing"
    /\ LET f == Top(p)
           a == heap[p][f.array]
           x == a[f.i + 1]
           y == a[f.i + 2]
       IN  \E ans \in Answers(cmp[p], <<x, y>>) :
           /\ log' = [log EXCEPT ![p] = Append(@, <<x, y>>)]
           /\ SetTop(p, [f EXCEPT
                  !.pairs = IF ans # 0 THEN DictSet(@, y, x) ELSE DictSet(@, x, y),
                  !.i = f.i + 2,
                  !.pc = IF f.i + 2 < Len(a) - 1 THEN "pairing" ELSE "recurse"])
    /\ UNCHANGED <<input, cmp, heap, bs, status, result, mc, mg, gs>>

\* line 170: the recursive call on list(pairs)
Recurse(p) ==
    /\ stack[p] # <<>>
    /\ Top(p).pc = "recurse"
    /\ heap' = [heap EXCEPT ![p] = Append(@, DictKeys(Top(p).pairs))]
    /\ stack' = [stack EXCEPT ![p] =
           Append([@ EXCEPT ![Len(@)] = [@ EXCEPT !.pc = "await_larger"]],
                  NewFrame(Len(heap[p]) + 1))]
    /\ UNCHANGED <<input, cmp, bs, log, status, result, mc, mg, gs>>

\* lines 176-177 and the evaluation of the iterable of line 218
BuildChain(p) ==
    /\ stack[p] # <<>>
    /\ Top(p).pc = "chain"
    /\ LET f      == Top(p)
           a      == heap[p][f.array]
           larger == heap[p][f.larger]
           L      == Len(larger)
           base   == Len(heap[p])
           slots  == [k \in 1..(L + 1) |->
                        IF k = 1 THEN <<DictGet(f.pairs, larger[1])>>
                        ELSE IF k = 2 THEN <<larger[1]>>
                        ELSE <<larger[k - 1], DictGet(f.pairs, larger[k - 1])>>]
           chain  == [k \in 1..(L + 1) |-> base + k]
           chainId == base + L + 2
           odd    == Len(a) % 2 # 0
           leftId == base + L + 3
           pending == Slice(chain, 2, Len(chain)) \o (IF odd THEN <<leftId>> ELSE <<>>)
       IN  IF \E k \in 1..L : ~DictHas(f.pairs, larger[k])
           THEN /\ Raises(p, "KeyError")
                /\ UNCHANGED heap
           ELSE /\ heap' = [heap EXCEPT ![p] =
                       @ \o slots \o <<chain>>
                         \o (IF odd THEN <<<<a[Len(a)]>>>> ELSE <<>>)]
                /\ SetTop(p, [f EXCEPT !.main_chain = chainId,
                                        !.queue = make_groups(pending),
                                        !.qi = 1,
                                        !.pc = "insert_loop"])
                /\ UNCHANGED <<status, result>>
    /\ UNCHANGED <<input, cmp, bs, log, mc, mg, gs>>

\* lines 218-230 up to the call of _bin_insert_index
InsertSelect(p) ==
    /\ stack[p] # <<>>
    /\ Top(p).pc = "insert_loop"
    /\ LET f     == Top(p)
           h     == heap[p]
           chain == h[f.main_chain]
           pair  == f.queue[f.qi][2]
       IN  IF Len(h[pair]) = 1
           THEN /\ bs' = [bs EXCEPT ![p] = BsCall(LeftoverTarget(h, chain), h[pair][1])]
                /\ SetTop(p, [f EXCEPT !.item = h[pair][1], !.pc = "await_idx"])
                /\ UNCHANGED <<heap, status, result>>
           ELSE LET pair_idx == ident_find(chain, pair)
                    item     == h[pair][Len(h[pair])]
                IN  IF pair_idx < 0
                    THEN /\ Raises(p, "IndexError")
                         /\ UNCHANGED <<heap, bs>>
                    ELSE /\ heap' = [heap EXCEPT ![p][pair] = SubSeq(@, 1, Len(@) - 1)]
                         /\ bs' = [bs EXCEPT ![p] =
                                BsCall(PairedTarget(h, chain, pair_idx), item)]
                         /\ SetTop(p, [f EXCEPT !.item = item, !.pair_idx = pair_idx,
                                                 !.pc = "await_idx"])
                         /\ UNCHANGED <<status, result>>
    /\ UNCHANGED <<input, cmp, log, mc, mg, gs>>

\* lines 119-125: the special cases of _bin_insert_index
BinEnter(p) ==
    /\ bs[p].pc = "start"
    /\ LET b == bs[p]
       IN  IF b.array = <<>>
           THEN /\ bs' = [bs EXCEPT ![p] = [b EXCEPT !.pc = "ret", !.rv = 0]]
                /\ UNCHANGED <<log, stack, status, result>>
           ELSE IF b.item \in Range(b.array)
           THEN /\ bs' = [bs EXCEPT ![p] = [b EXCEPT !.pc = "raised"]]
                /\ IF stack[p] # <<>>
                   THEN Raises(p, "ValueError: item is already in target array")
                   ELSE UNCHANGED <<stack, status, result>>
                /\ UNCHANGED log
           ELSE IF Len(b.array) = 1
           THEN \E ans \in Answers(cmp[p], <<b.item, b.array[1]>>) :
                /\ log' = [log EXCEPT ![p] = Append(@, <<b.item, b.array[1]>>)]
                /\ bs' = [bs EXCEPT ![p] = [b EXCEPT !.pc = "ret",
                              !.rv = SingleIndex(ans), !.calls = 1]]
                /\ UNCHANGED <<stack, status, result>>
           ELSE /\ bs' = [bs EXCEPT ![p] = [b EXCEPT !.pc = "loop", !.left = 0,
                              !.right = Len(b.array) - 1]]
                /\ UNCHANGED <<log, stack, status, result>>
    /\ UNCHANGED <<input, cmp, heap, mc, mg, gs>>

\* lines 126-132: one iteration of the search loop, and the return when the
\* loop condition fails afterwards
BinStep(p) ==
    /\ bs[p].pc = "loop"
    /\ LET b   == bs[p]
           mid == Midpoint(b.left, b.right)
       IN  \E ans \in Answers(cmp[p], <<b.item, b.array[mid + 1]>>) :
           LET nb    == Narrow(b.left, b.right, mid, ans)
               left  == nb.left
               right == nb.right
           IN  /\ log' = [log EXCEPT ![p] = Append(@, <<b.item, b.array[mid + 1]>>)]
               /\ bs' = [bs EXCEPT ![p] = [b EXCEPT
                      !.left = left, !.right = right, !.calls = b.calls + 1,
                      !.pc = IF left <= right THEN "loop" ELSE "ret",
                      !.rv = IF left <= right THEN b.rv ELSE left]]
    /\ UNCHANGED <<input, cmp, heap, stack, status, result, mc, mg, gs>>

\* line 232, with the assignment of idx from the returned index
InsertSplice(p) ==
    /\ stack[p] # <<>>
    /\ Top(p).pc = "await_idx"
    /\ bs[p].pc = "ret"
    /\ LET f   == Top(p)
           idx == bs[p].rv
           slotId == Len(heap[p]) + 1
       IN  /\ heap' = [heap EXCEPT ![p] =
                  Append([@ EXCEPT ![f.main_chain] = ListInsert(@, idx, slotId)],
                         <<f.item>>)]
           /\ SetTop(p, [f EXCEPT !.idx = idx, !.qi = f.qi + 1,
                  !.pc = IF f.qi + 1 <= Len(f.queue) THEN "insert_loop" ELSE "finish"])
    /\ bs' = [bs EXCEPT ![p] = BsIdle]
    /\ UNCHANGED <<input, cmp, log, status, result, mc, mg, gs>>

\* the sorted items are written back into `array`, which is returned
SortFinishInPlace(p) ==
    /\ stack[p] # <<>>
    /\ Top(p).pc = "finish"
    /\ LET h     == heap[p]
           chain == h[Top(p).main_chain]
       IN  /\ heap' = [heap EXCEPT ![p][Top(p).array] = Placed(h, chain)]
           /\ Returns(p, Top(p).array)
    /\ UNCHANGED <<input, cmp, bs, log, mc, mg, gs>>

\* lines 233-236
SortFinish(p) ==
    /\ stack[p] # <<>>
    /\ Top(p).pc = "finish"
    /\ LET h     == heap[p]
           chain == h[Top(p).main_chain]
       IN  IF \E k \in 1..Len(chain) : Len(h[chain[k]]) # 1
           THEN /\ Raises(p, "AssertionError")
                /\ UNCHANGED heap
           ELSE /\ heap' = [heap EXCEPT ![p] = Append(@, Placed(h, chain))]
                /\ Returns(p, Len(h) + 1)
    /\ UNCHANGED <<input, cmp, bs, log, mc, mg, gs>>

\* lines 244-247
MaxComparisonsCall ==
    /\ mc.pc = "called"
    /\ LET r == merge_insertion_max_comparisons(mc.n)
       IN  mc' = [mc EXCEPT !.pc = "done", !.raised = r.raised, !.rv = r.rv]
    /\ UNCHANGED <<input, cmp, heap, stack, bs, log, status, result, mg, gs>>

\* ------------------------------------------------- the sort run on its own
\* _bin_insert_index and merge_insertion_sort as functions of their
\* arguments, for a comparator whose answer depends on the tuple alone:
\* the value returned, the tuples compared (appended to lg), the error.
TheAnswer(c, ab) == CHOOSE ans \in Answers(c, ab) : TRUE

\* lines 126-132
RECURSIVE bin_loop_alone(_, _, _, _, _, _)
bin_loop_alone(c, array, item, left, right, lg) ==
    IF left <= right
    THEN LET mid == Midpoint(left, right)
             ab  == <<item, array[mid + 1]>>
             nb  == Narrow(left, right, mid, TheAnswer(c, ab))
         IN  bin_loop_alone(c, array, item, nb.left, nb.right, Append(lg, ab))
    ELSE [rv |-> left, log |-> lg, raised |-> "none"]

\* lines 118-132
bin_insert_index_alone(c, array, item, lg) ==
    IF array = <<>>
    THEN [rv |-> 0, log |-> lg, raised |-> "none"]
    ELSE IF item \in Range(array)
    THEN [rv |-> -1, log |-> lg,
          raised |-> "ValueError: item is already in target array"]
    ELSE IF Len(array) = 1
    THEN [rv |-> SingleIndex(TheAnswer(c, <<item, array[1]>>)),
          log |-> Append(lg, <<item, array[1]>>), raised |-> "none"]
    ELSE bin_loop_alone(c, array, item, 0, Len(array) - 1, lg)

\* lines 161-166
RECURSIVE pairs_alone(_, _, _, _, _)
pairs_alone(c, array, i, pairs, lg) ==
    IF i < Len(array) - 1
    THEN LET x == array[i + 1]
             y == array[i + 2]
         IN  pairs_alone(c, array, i + 2,
                 IF TheAnswer(c, <<x, y>>) # 0
                 THEN DictSet(pairs, y, x) ELSE DictSet(pairs, x, y),
                 Append(lg, <<x, y>>))
    ELSE [pairs |-> pairs, log |-> lg]

\* lines 218-232: slots are the slot objects by identity, chain the main
\* chain as a list of identities, queue what _make_groups returned
RECURSIVE insert_alone(_, _, _, _, _, _)
insert_alone(c, queue, qi, slots, chain, lg) ==
    IF qi > Len(queue)
    THEN [slots |-> slots, chain |-> chain, log |-> lg, raised |-> "none"]
    ELSE LET pair     == queue[qi][2]
             single   == Len(slots[pair]) = 1
             pair_idx == ident_find(chain, pair)
             item     == slots[pair][Len(slots[pair])]
             popped   == IF single THEN slots
                         ELSE [slots EXCEPT ![pair] = SubSeq(@, 1, Len(@) - 1)]
             r        == bin_insert_index_alone(c,
                            IF single THEN LeftoverTarget(popped, chain)
                            ELSE PairedTarget(popped, chain, pair_idx),
                            item, lg)
         IN  IF ~single /\ pair_idx < 0
             THEN [slots |-> slots, chain |-> chain, log |-> lg, raised |-> "IndexError"]
             ELSE IF r.raised # "none"
             THEN [slots |-> popped, chain |-> chain, log |-> r.log, raised |-> r.raised]
             ELSE insert_alone(c, queue, qi + 1, Append(popped, <<item>>),
                               ListInsert(chain, r.rv, Len(popped) + 1), r.log)

\* lines 141-236
RECURSIVE sort_alone(_, _)
sort_alone(c, array) ==
    IF Len(array) < 1
    THEN [rv |-> <<>>, log |-> <<>>, raised |-> "none"]
    ELSE IF Len(array) = 1
    THEN [rv |-> array, log |-> <<>>, raised |-> "none"]
    ELSE IF HasDuplicates(array)
    THEN [rv |-> <<>>, log |-> <<>>, raised |-> "ValueError: duplicate items"]
    ELSE IF Len(array) = 2
    THEN [rv |-> IF TheAnswer(c, <<array[1], array[2]>>) # 0
                 THEN array ELSE <<array[2], array[1]>>,
          log |-> <<<<array[1], array[2]>>>>, raised |-> "none"]
    ELSE LET pr      == pairs_alone(c, array, 0, <<>>, <<>>)
             rec     == sort_alone(c, DictKeys(pr.pairs))
             larger  == rec.rv
             L       == Len(larger)
             odd     == Len(array) % 2 # 0
             slots   == [k \in 1..(L + 1) |->
                           IF k = 1 THEN <<DictGet(pr.pairs, larger[1])>>
                           ELSE IF k = 2 THEN <<larger[1]>>
                           ELSE <<larger[k - 1], DictGet(pr.pairs, larger[k - 1])>>]
                        \o (IF odd THEN <<<<array[Len(array)]>>>> ELSE <<>>)
             chain   == [k \in 1..(L + 1) |-> k]
             pending == Slice(chain, 2, Len(chain)) \o (IF odd THEN <<L + 2>> ELSE <<>>)
             ins     == insert_alone(c, make_groups(pending), 1, slots, chain,
                                     pr.log \o rec.log)
         IN  IF rec.raised # "none"
             THEN [rv |-> <<>>, log |-> pr.log \o rec.log, raised |-> rec.raised]
             ELSE IF \E k \in 1..L : ~DictHas(pr.pairs, larger[k])
             THEN [rv |-> <<>>, log |-> pr.log \o rec.log, raised |-> "KeyError"]
             ELSE IF ins.raised # "none"
             THEN [rv |-> <<>>, log |-> ins.log, raised |-> ins.raised]
             ELSE IF \E k \in 1..Len(ins.chain) : Len(ins.slots[ins.chain[k]]) # 1
             THEN [rv |-> <<>>, log |-> ins.log, raised |-> "AssertionError"]
             ELSE [rv |-> Placed(ins.slots, ins.chain), log |-> ins.log,
                   raised |-> "none"]

\* lines 96-109: _make_groups(array)
MakeGroupsCall ==
    /\ mg.pc = "called"
    /\ mg' = [mg EXCEPT !.pc = "done", !.rv = make_groups(mg.array)]
    /\ UNCHANGED <<input, cmp, heap, stack, bs, log, status, result, mc, gs>>

\* lines 88-92: next(gen), one turn of the generator's loop
GroupSizesNext ==
    /\ Len(gs.emitted) < MaxEmit
    /\ LET nx == group_sizes_next(gs.gen)
       IN  gs' = [gen |-> nx.gen, emitted |-> Append(gs.emitted, nx.value)]
    /\ UNCHANGED <<input, cmp, heap, stack, bs, log, status, result, mc, mg>>

\* ------------------------------------------------------- specifications
DupInputs ==
    UNION {{s \in [1..n -> 1..n] : Cardinality(Range(s)) < n} : n \in 2..MaxDupLen}

SortInputs(n) == UNION {Perms(k) : k \in 0..n}

InitCommon ==
    /\ bs = [p \in Procs |-> BsIdle]
    /\ log = [p \in Procs |-> <<>>]
    /\ result = [p \in Procs |-> 0]

\* one top-level sort
Init ==
    /\ \E a \in SortInputs(MaxN) \cup DupInputs, c \in Comparators :
          /\ input = [p \in Procs |-> IF p = 1 THEN a ELSE <<>>]
          /\ cmp = [p \in Procs |-> IF p = 1 THEN c ELSE "asc"]
          /\ heap = [p \in Procs |-> IF p = 1 THEN <<a>> ELSE <<>>]
          /\ stack = [p \in Procs |-> IF p = 1 THEN <<NewFrame(InputObj)>> ELSE <<>>]
          /\ status = [p \in Procs |-> IF p = 1 THEN "running" ELSE "idle"]
    /\ InitCommon
    /\ mc = McIdle
    /\ mg = MgIdle
    /\ gs = GsNew

Step(p) ==
    \/ SortEnter(p)
    \/ PairCompare(p)
    \/ Recurse(p)
    \/ BuildChain(p)
    \/ InsertSelect(p)
    \/ BinEnter(p)
    \/ BinStep(p)
    \/ InsertSplice(p)
    \/ SortFinish(p)

Next == \E p \in Procs : Step(p)

Spec == Init /\ [][Next]_vars

AllIdle ==
    /\ input = [p \in Procs |-> <<>>]
    /\ cmp = [p \in Procs |-> "asc"]
    /\ heap = [p \in Procs |-> <<>>]
    /\ stack = [p \in Procs |-> <<>>]
    /\ status = [p \in Procs |-> "idle"]
    /\ log = [p \in Procs |-> <<>>]
    /\ result = [p \in Procs |-> 0]

\* merge_insertion_max_comparisons(n) called on its own
InitBound ==
    /\ AllIdle
    /\ bs = [p \in Procs |-> BsIdle]
    /\ \E n \in (0 - MaxNeg)..MaxArg : mc = [McIdle EXCEPT !.pc = "called", !.n = n]
    /\ mg = MgIdle
    /\ gs = GsNew

NextBound == MaxComparisonsCall

SpecBound == InitBound /\ [][NextBound]_vars

\* the inputs in order and in reverse order, of every length up to n
OrderedInputs(n) ==
    UNION {{[j \in 1..k |-> j], [j \in 1..k |-> k + 1 - j]} : k \in 0..n}

\* two top-level sorts, of inputs and with comparators of their own, whose
\* steps interleave in any order
InitConc ==
    /\ \E a \in SortInputs(MaxConcA), b \in OrderedInputs(MaxConcB) :
       \E c \in Comparators :
       \E d \in Comparators \ {c} :
          /\ input = [p \in Procs |-> IF p = 1 THEN a ELSE b]
          /\ cmp = [p \in Procs |-> IF p = 1 THEN c ELSE d]
          /\ heap = [p \in Procs |-> IF p = 1 THEN <<a>> ELSE <<b>>]
    /\ stack = [p \in Procs |-> <<NewFrame(InputObj)>>]
    /\ status = [p \in Procs |-> "running"]
    /\ InitCommon
    /\ mc = McIdle
    /\ mg = MgIdle
    /\ gs = GsNew

SpecConc == InitConc /\ [][Next]_vars

\* one top-level sort whose comparator is bound by no order; every step of
\* the call is eventually taken, the comparator answering every await
InitAny ==
    /\ \E a \in OrderedInputs(MaxAnyN) :
          /\ input = [p \in Procs |-> IF p = 1 THEN a ELSE <<>>]
          /\ heap = [p \in Procs |-> IF p = 1 THEN <<a>> ELSE <<>>]
    /\ cmp = [p \in Procs |-> IF p = 1 THEN "any" ELSE "asc"]
    /\ stack = [p \in Procs |-> IF p = 1 THEN <<NewFrame(InputObj)>> ELSE <<>>]
    /\ status = [p \in Procs |-> IF p = 1 THEN "running" ELSE "idle"]
    /\ InitCommon
    /\ mc = McIdle
    /\ mg = MgIdle
    /\ gs = GsNew

SpecAny == InitAny /\ [][Next]_vars /\ WF_vars(Next)

\* the elements of the arrays handed to a stand-alone _make_groups
GroupItems == {1, 2}

\* _make_groups(array) called on its own, and a new _group_sizes()
\* generator drawn from, as the tests do
InitGroups ==
    /\ AllIdle
    /\ bs = [p \in Procs |-> BsIdle]
    /\ mc = McIdle
    /\ \E n \in 0..MaxGroupLen : \E a \in [1..n -> GroupItems] :
          mg = [MgIdle EXCEPT !.pc = "called", !.array = a]
    /\ gs = GsNew

NextGroups == MakeGroupsCall \/ GroupSizesNext

SpecGroups == InitGroups /\ [][NextGroups]_vars

\* the strictly ascending sequences, under comparator c, of at most n of
\* the items 1..n+1
AscendingSeqs(c, n) ==
    UNION {{s \in [1..k -> 1..(n + 1)] :
              \A j \in 1..(k - 1) : RanksLower(c, s[j], s[j + 1])} : k \in 0..n}

\* _bin_insert_index(S, item, comp) called on its own, as the tests do
InitBin ==
    /\ input = [p \in Procs |-> <<>>]
    /\ heap = [p \in Procs |-> <<>>]
    /\ stack = [p \in Procs |-> <<>>]
    /\ status = [p \in Procs |-> "idle"]
    /\ log = [p \in Procs |-> <<>>]
    /\ result = [p \in Procs |-> 0]
    /\ mc = McIdle
    /\ mg = MgIdle
    /\ gs = GsNew
    /\ \E c \in Comparators :
          \E S \in AscendingSeqs(c, MaxBinLen), item \in 1..(MaxBinLen + 1) :
             /\ cmp = [p \in Procs |-> IF p = 1 THEN c ELSE "asc"]
             /\ bs = [p \in Procs |-> IF p = 1 THEN BsCall(S, item) ELSE BsIdle]

NextBin == \E p \in Procs : BinEnter(p) \/ BinStep(p)

SpecBin == InitBin /\ [][NextBin]_vars

\* --------------------------------------------------------------- claims
DuplicateFree(a) == \A j, k \in 1..Len(a) : j # k => a[j] # a[k]

Ascending(c, r) == \A k \in 1..(Len(r) - 1) : RanksLower(c, r[k], r[k + 1])

Count(r, x) == Cardinality({k \in 1..Len(r) : r[k] = x})

IsPermutationOf(r, a) ==
    /\ Len(r) = Len(a)
    /\ \A x \in Range(a) \cup Range(r) : Count(r, x) = Count(a, x)

Returned(p) == status[p] = "returned"

\* C1: a sort of a duplicate-free input under a total-order comparator
\* raises nothing, and what it returns is a permutation of the input that
\* is ascending under the comparator.
C1_SortedPermutation ==
    \A p \in Procs :
        DuplicateFree(input[p]) =>
            /\ status[p] \in {"idle", "running", "returned"}
            /\ Returned(p) =>
                  /\ IsPermutationOf(heap[p][result[p]], input[p])
                  /\ Ascending(cmp[p], heap[p][result[p]])

C1_Witness ==
    /\ Returned(1)
    /\ Len(input[1]) >= 5
    /\ cmp[1] = "asc"
    /\ ~Ascending("asc", input[1])
    /\ heap[1][result[1]] = [k \in 1..Len(input[1]) |-> k]

\* C2: the number of comparator invocations of one top-level sort of a
\* duplicate-free input of length n, recursive calls included, never
\* exceeds merge_insertion_max_comparisons(n).
C2_ComparisonBound ==
    \A p \in Procs :
        DuplicateFree(input[p]) =>
            Len(log[p]) <= merge_insertion_max_comparisons(Len(input[p])).rv

C2_Witness ==
    /\ Returned(1)
    /\ Len(input[1]) >= 5
    /\ Len(log[1]) = merge_insertion_max_comparisons(Len(input[1])).rv

\* C3: within one top-level sort of a duplicate-free input no unordered
\* pair of items is handed to the comparator twice, in either order.
C3_NoRepeatedComparison ==
    \A p \in Procs :
        DuplicateFree(input[p]) =>
            \A j, k \in 1..Len(log[p]) :
                j < k => {log[p][j][1], log[p][j][2]} # {log[p][k][1], log[p][k][2]}

C3_Witness ==
    /\ Returned(1)
    /\ Len(input[1]) >= 5
    /\ Len(log[1]) >= 7

\* C4: a sort of an input of length >= 2 that holds two equal values ends
\* in the duplicate-items error, with no comparator call and no result.
C4_DuplicatesRejected ==
    \A p \in Procs :
        (Len(input[p]) >= 2 /\ ~DuplicateFree(input[p])) =>
            /\ log[p] = <<>>
            /\ result[p] = 0
            /\ status[p] \in {"running", "ValueError: duplicate items"}
            /\ status[p] = "running" => (Len(stack[p]) = 1 /\ Top(p).pc = "start")

C4_Witness ==
    /\ input[1] = <<1, 2, 2>>
    /\ status[1] = "ValueError: duplicate items"
    /\ stack[1] = <<>>

\* C6: the caller's input sequence holds the same elements in the same
\* order at every point of the call and after it, and the returned list
\* is another object than the input.
C6_InputNotModified ==
    \A p \in Procs :
        status[p] # "idle" =>
            /\ heap[p][InputObj] = input[p]
            /\ Returned(p) => result[p] # InputObj

C6_Witness ==
    /\ Returned(1)
    /\ Len(input[1]) >= 3
    /\ heap[1][result[1]] # input[1]
    /\ heap[1][InputObj] = input[1]

\* exponents wide enough for the logarithms of the arguments checked
Exponents == 0..(MaxArg \div 4)

\* C5: merge_insertion_max_comparisons(n) raises the negative-argument
\* error for n < 0, returns 0 for n = 0, and for n >= 1 returns
\* n*ceil(log2(3n/4)) - floor(2^floor(log2(6n))/3) + floor(log2(6n)/2);
\* for n = 0..10 that is 0,0,1,3,5,7,10,13,16,19,22.
C5_MaxComparisons ==
    mc.pc = "done" =>
        /\ mc.n < 0 => mc.raised = "ValueError"
        /\ mc.n >= 0 => mc.raised = "none"
        /\ mc.n = 0 => mc.rv = 0
        /\ mc.n >= 1 =>
              \E c \in Exponents, f \in Exponents :
                 \* c = ceil(log2(3n/4)): 2^(c-1) < 3n/4 <= 2^c
                 /\ 4 * Pow2(c) >= 3 * mc.n
                 /\ (c > 0 => 4 * Pow2(c - 1) < 3 * mc.n)
                 \* f = floor(log2(6n)): 2^f <= 6n < 2^(f+1)
                 /\ Pow2(f) <= 6 * mc.n
                 /\ 6 * mc.n < Pow2(f + 1)
                 /\ mc.rv = mc.n * c - (Pow2(f) \div 3) + (f \div 2)
        /\ mc.n \in 0..10 =>
              mc.rv = <<0, 0, 1, 3, 5, 7, 10, 13, 16, 19, 22>>[mc.n + 1]

C5_Witness ==
    /\ mc.pc = "done"
    /\ mc.n = 10
    /\ mc.rv = 22

\* C8: for a strictly ascending S and an item that is no member of S,
\* _bin_insert_index returns the index i, 0 <= i <= len(S), such that all
\* of S before i ranks lower than item and all from i on ranks higher; it
\* returns 0 without a comparator call for empty S and makes exactly one
\* call for a one-element S.
C8_InsertIndex ==
    \A p \in Procs :
        LET b == bs[p]
        IN  (Ascending(cmp[p], b.array) /\ b.item \notin Range(b.array)) =>
              /\ b.pc # "raised"
              /\ b.pc = "ret" =>
                    /\ b.rv \in 0..Len(b.array)
                    /\ \A k \in 1..b.rv : RanksLower(cmp[p], b.array[k], b.item)
                    /\ \A k \in (b.rv + 1)..Len(b.array) :
                          RanksLower(cmp[p], b.item, b.array[k])
                    /\ Len(b.array) = 0 => (b.rv = 0 /\ b.calls = 0)
                    /\ Len(b.array) = 1 => b.calls = 1
                    /\ b.calls = Len(log[p])

C8_Witness ==
    /\ bs[1].pc = "ret"
    /\ Len(bs[1].array) >= 4
    /\ bs[1].rv \in 1..(Len(bs[1].array) - 1)
    /\ bs[1].calls >= 2

IsPrefix(s, t) == Len(s) <= Len(t) /\ s = SubSeq(t, 1, Len(s))

\* what belongs to invocation p
Local(p) == <<input[p], cmp[p], heap[p], stack[p], bs[p], log[p], status[p], result[p]>>

\* invocation p raises nothing, and when it returns, what it has compared,
\* in this order, and what it returns are those of the same sort run alone
SameAsAlone(p) ==
    /\ status[p] \in {"running", "returned"}
    /\ Returned(p) =>
          LET alone == sort_alone(cmp[p], input[p])
          IN  /\ log[p] = alone.log
              /\ heap[p][result[p]] = alone.rv
              /\ alone.raised = "none"

\* C7: two independent top-level sorts whose steps interleave arbitrarily
\* each issue the comparisons, in the order, and return the result of the
\* same sort run alone (the sequence of comparisons only ever grows at its
\* end, so that what is compared before the return is a prefix of it), and
\* a step of one leaves the main chain, the pairs and everything else of
\* the other as they were.
C7_Independent ==
    /\ [](\A p \in Procs : SameAsAlone(p))
    /\ [][\A p \in Procs : IsPrefix(log[p], log[p]')]_vars
    /\ [][\E p \in Procs : \A q \in Procs \ {p} : Local(q)' = Local(q)]_vars

C7_Witness ==
    /\ Returned(1)
    /\ Len(input[1]) >= 4
    /\ Len(log[1]) >= 4
    /\ status[2] = "running"
    /\ Len(input[2]) >= 3
    /\ Len(log[2]) >= 1
    /\ stack[2] # <<>>
    /\ Top(2).pc \in {"insert_loop", "await_idx"}

\* the frames whose main chain is constructed
ChainFrames(p) ==
    {k \in 1..Len(stack[p]) : stack[p][k].pc \in {"insert_loop", "await_idx", "finish"}}

\* C9: once the main chain is constructed, before and after each insertion,
\* the first elements of its slots are ascending under the comparator, and
\* at the end every slot holds exactly one item.
C9_MainChainAscending ==
    \A p \in Procs : \A k \in ChainFrames(p) :
        LET f     == stack[p][k]
            chain == heap[p][f.main_chain]
        IN  /\ Ascending(cmp[p], Placed(heap[p], chain))
            /\ f.pc = "finish" => \A j \in 1..Len(chain) : Len(heap[p][chain[j]]) = 1

C9_Witness ==
    /\ stack[1] # <<>>
    /\ Top(1).pc = "insert_loop"
    /\ Top(1).qi >= 2
    /\ Len(heap[1][Top(1).main_chain]) >= 4
    /\ \E j \in 1..Len(heap[1][Top(1).main_chain]) :
          Len(heap[1][heap[1][Top(1).main_chain][j]]) = 2

\* the 1-based position in the chain of the slot whose placed element is x
\* (0 if x is not placed)
PosOf(h, chain, x) ==
    IF \E j \in 1..Len(chain) : h[chain[j]][1] = x
    THEN CHOOSE j \in 1..Len(chain) : h[chain[j]][1] = x
    ELSE 0

IsLeftover(h, f) ==
    /\ Len(h[f.array]) % 2 = 1
    /\ f.item = h[f.array][Len(h[f.array])]

\* the larger element the frame's item was paired with
PartnerOf(f) == f.pairs[CHOOSE j \in 1..Len(f.pairs) : f.pairs[j][2] = f.item][1]

\* C10: the leftover element of an odd-length input is searched in the
\* placed elements of the whole main chain as it is at that moment; a
\* paired smaller element is searched only in the placed elements strictly
\* before the current position of its partner's slot, and is spliced in
\* at an index not after its partner.
C10_InsertionExtent ==
    \A p \in Procs : \A k \in ChainFrames(p) :
        LET f     == stack[p][k]
            h     == heap[p]
            chain == h[f.main_chain]
        IN  /\ (f.pc = "await_idx" /\ IsLeftover(h, f)) =>
                  bs[p].array = Placed(h, chain)
            /\ (f.pc = "await_idx" /\ ~IsLeftover(h, f)) =>
                  bs[p].array = Placed(h, SubSeq(chain, 1, PosOf(h, chain, PartnerOf(f)) - 1))
            /\ (f.pc \in {"insert_loop", "finish"} /\ f.idx >= 0 /\ ~IsLeftover(h, f)) =>
                  /\ f.idx <= f.pair_idx
                  /\ PosOf(h, chain, f.item) = f.idx + 1
                  /\ PosOf(h, chain, f.item) < PosOf(h, chain, PartnerOf(f))

C10_Witness ==
    /\ stack[1] # <<>>
    /\ Top(1).pc = "await_idx"
    /\ ~IsLeftover(heap[1], Top(1))
    /\ Len(heap[1][Top(1).array]) % 2 = 1
    /\ LET h     == heap[1]
           chain == h[Top(1).main_chain]
           left  == h[Top(1).array][Len(h[Top(1).array])]
       IN  /\ PosOf(h, chain, left) > PosOf(h, chain, PartnerOf(Top(1)))
           /\ Len(bs[1].array) < Len(chain) - 1

\* the group sizes the partition is to follow, as far as the arrays go
StatedSizes == <<2, 2, 6, 10, 22>>

\* the number of elements in front of group g
RECURSIVE StatedStart(_)
StatedStart(g) == IF g <= 1 THEN 0 ELSE StatedStart(g - 1) + StatedSizes[g - 1]

\* C11: for an input of N elements _make_groups returns exactly N entries
\* (original index, element) in which every input position appears exactly
\* once: the input cut from the front into consecutive groups of sizes
\* 2, 2, 6, 10, ... (the last one possibly shorter), the groups in order,
\* the elements of each group reversed; an empty input gives an empty
\* output.
C11_GroupsPartition ==
    mg.pc = "done" =>
        LET N   == Len(mg.array)
            out == mg.rv
        IN  /\ Len(out) = N
            /\ N = 0 => out = <<>>
            /\ \A j \in 0..(N - 1) :
                  Cardinality({k \in 1..Len(out) : out[k][1] = j}) = 1
            /\ \A k \in 1..Len(out) :
                  /\ out[k][1] \in 0..(N - 1)
                  /\ out[k][2] = mg.array[out[k][1] + 1]
            /\ \A g \in 1..Len(StatedSizes) :
                  LET first == StatedStart(g)
                      last  == Min(first + StatedSizes[g], N)
                  IN  \A k \in (first + 1)..Min(last, Len(out)) :
                         out[k][1] = first + last - k

C11_Witness ==
    /\ mg.pc = "done"
    /\ Len(mg.array) = 11
    /\ mg.array[1] # mg.array[2]
    /\ mg.rv[1] = <<1, mg.array[2]>>
    /\ mg.rv[5][1] = 9
    /\ mg.rv[10][1] = 4
    /\ mg.rv[11][1] = 10

\* C12: a new group-size generator emits a(1), a(2), a(3), ... where
\* a(0) = 0 and a(n) = 2^n - a(n-1); its first 10 values are
\* 2, 2, 6, 10, 22, 42, 86, 170, 342, 682, and every value is positive.
C12_GroupSizes ==
    \A k \in 1..Len(gs.emitted) :
        /\ gs.emitted[k] = Pow2(k) - (IF k = 1 THEN 0 ELSE gs.emitted[k - 1])
        /\ k <= 10 => gs.emitted[k] = <<2, 2, 6, 10, 22, 42, 86, 170, 342, 682>>[k]
        /\ gs.emitted[k] > 0

C12_Witness ==
    /\ Len(gs.emitted) = 10
    /\ gs.emitted[10] = 682

\* C13 as stated: g(1) = g(2) = 2 and, for every k >= 1, g(2k-1) and g(2k)
\* sum to 2^(k+1).
C13_PairSumsAsStated ==
    /\ Len(gs.emitted) >= 2 => (gs.emitted[1] = 2 /\ gs.emitted[2] = 2)
    /\ \A k \in 1..(Len(gs.emitted) \div 2) :
          gs.emitted[2 * k - 1] + gs.emitted[2 * k] = Pow2(k + 1)

\* C13, amended: g(1) = g(2) = 2 and, for every k >= 1, the two adjacent
\* values g(k) and g(k+1) sum to 2^(k+1), so that g(2k-1) and g(2k) sum
\* to 2^(2k).
C13_AdjacentSums ==
    /\ Len(gs.emitted) >= 1 => gs.emitted[1] = 2
    /\ Len(gs.emitted) >= 2 => gs.emitted[2] = 2
    /\ \A k \in 1..(Len(gs.emitted) - 1) :
          gs.emitted[k] + gs.emitted[k + 1] = Pow2(k + 1)
    /\ \A k \in 1..(Len(gs.emitted) \div 2) :
          gs.emitted[2 * k - 1] + gs.emitted[2 * k] = Pow2(2 * k)

C13_Witness ==
    /\ Len(gs.emitted) >= 4
    /\ gs.emitted[3] + gs.emitted[4] = 16
    /\ gs.emitted[3] + gs.emitted[4] # Pow2(3)

\* C14: a sort of a duplicate-free input under a comparator that answers
\* each call with either of 0 and 1, bound by no order, raises nothing
\* (neither "item is already in target array" nor the identity lookup's
\* IndexError, nor any other error), comes to its return, and what it
\* returns holds every item of the input exactly once.
C14_ArbitraryComparator ==
    /\ [](DuplicateFree(input[1]) /\ cmp[1] = "any")
    /\ [](status[1] \in {"running", "returned"})
    /\ [](Returned(1) => IsPermutationOf(heap[1][result[1]], input[1]))
    /\ <>Returned(1)

\* a sort under "any" has returned an order that neither ranking by value
\* nor ranking by reversed value gives
C14_Witness ==
    /\ Returned(1)
    /\ cmp[1] = "any"
    /\ Len(input[1]) = MaxAnyN
    /\ IsPermutationOf(heap[1][result[1]], input[1])
    /\ ~Ascending("asc", heap[1][result[1]])
    /\ ~Ascending("desc", heap[1][result[1]])

====
